---- MODULE Spec2Model ----
(***************************************************************************)
(* Popup lifecycle controller of ng2-semantic-ui (SuiPopupBaseDirective,   *)
(* src/src/datepicker/directives/datepicker.directive.ts lines 157-287).   *)
(*                                                                         *)
(* The controller owns one optional reference to a generated SuiPopup      *)
(* component, one `setTimeout` pointer for the delayed open, and reacts to *)
(* host events according to the configured PopupTrigger.  The SuiPopup     *)
(* component itself (open/close/isOpen/onClose) lives in another file of   *)
(* the repository; it is modelled from its collaborator contract.          *)
(***************************************************************************)
EXTENDS Naturals, Sequences, FiniteSets

\* Number of setTimeout handles the window hands out in one run.
MaxTimers == 3
\* Number of SuiPopup components createComponent generates in one run.
MaxPopups == 2
\* Number of close transitions of one popup that may be in flight at once.
MaxSignals == 2
\* Number of distinct dates a date input takes; 0 stands for undefined.
MaxDate == 1

\* PopupTrigger, the trigger modes of PopupConfig.
PopupTrigger == {"Hover", "Click", "OutsideClick", "Focus", "Manual"}

TimerIds == 1..MaxTimers
PopupIds == 1..MaxPopups
Dates == 0..MaxDate

\* DatepickerMode, the picker modes named by the switch of the mode setter.
DatepickerMode == {"Year", "Month", "Date", "Datetime", "Time"}

\* Values the pickerMode input may be bound to: a mode, undefined, null, a
\* falsy value that is no mode and a truthy value that is no mode.
ModeInputs == DatepickerMode \cup {"undefined", "null", "", "Bogus"}

VARIABLES
    _componentRef,    \* 0 (undefined) or the id of the generated popup component
    _openingTimeout,  \* 0 (never set) or the handle returned by the last setTimeout
    trigger,          \* _popupConfig.trigger
    timers,           \* handles of the window's timeouts that are armed
    nextTimer,        \* last handle setTimeout returned
    popups,           \* the SuiPopup components generated so far, by id
    nextPopup,        \* number of components createComponent generated
    last,             \* the step just taken: entry point, its argument, calls it made
    fired,            \* handles whose delayed callback has run
    closedTimers,     \* handles that were armed when close() ran
    _mode,            \* SuiDatepickerDirective._mode, "undefined" until set
    config,           \* SuiDatepickerDirective.config, "undefined" until set
    modeInput,        \* the value last assigned to the mode input, "never" if none
    _selectedDate,    \* SuiDatepickerDirective._selectedDate, 0 for undefined
    pickers,          \* componentInstance (SuiDatepicker) of each popup, by id
    emits             \* the values onDateChange emitted in the step just taken

\* The variables of the picker directive.
pickerVars == <<_mode, config, modeInput, _selectedDate, pickers, emits>>

vars == <<_componentRef, _openingTimeout, trigger, timers, nextTimer,
          popups, nextPopup, last, fired, closedTimers,
          _mode, config, modeInput, _selectedDate, pickers, emits>>

\* The SuiDatepicker of a popup that has not been opened: nothing pushed yet,
\* no subscriber on its onDateChange.
NoPicker == [config |-> "undefined", selectedDate |-> 0, subs |-> 0]

\* A slot of `popups` whose component has not been generated yet.
NoPopup == [isOpen |-> FALSE, signals |-> 0, handlers |-> 0, destroyed |-> 0, by |-> 0]

\* ComponentRef.instance of a component that has been generated.
Created(i) == i \in 1..nextPopup

\* A generated component whose ComponentRef.destroy() has not been called.
Live(i) == Created(i) /\ popups[i].destroyed = 0

-----------------------------------------------------------------------------
(* The SuiPopup collaborator: open(), close(), isOpen, onClose.             *)

\* SuiPopup.open(): the popup reports open; a close transition that is in
\* flight is not cancelled, its completion signal still fires.
PopupOpen(p) == [p EXCEPT !.isOpen = TRUE]

\* SuiPopup.close(): the outcomes of invoking the close transition.  An open
\* popup reports closed and starts a close transition whose completion will
\* emit onClose.  On a popup that already reports closed the contract leaves
\* open whether another transition starts.
PopupClose(p) ==
    LET started == [p EXCEPT !.isOpen = FALSE, !.signals = @ + 1]
    IN  IF p.isOpen
        THEN IF p.signals < MaxSignals THEN {started} ELSE {}
        ELSE {p} \cup (IF p.signals < MaxSignals THEN {started} ELSE {})

-----------------------------------------------------------------------------
(* SuiPopupBaseDirective                                                    *)

\* clearTimeout called with a handle that is not the armed one: nothing is
\* cancelled.
ClearOpeningTimeout_None == timers

\* clearTimeout(this._openingTimeout)
ClearOpeningTimeout == timers \ {_openingTimeout}

Init ==
    /\ _componentRef = 0
    /\ _openingTimeout = 0
    /\ trigger \in PopupTrigger
    /\ timers = {}
    /\ nextTimer = 0
    /\ popups = [i \in PopupIds |-> NoPopup]
    /\ nextPopup = 0
    /\ last = [ev |-> "init", inside |-> FALSE, id |-> 0, calls |-> <<>>]
    /\ fired = {}
    /\ closedTimers = {}
    /\ _mode = "undefined"
    /\ config = "undefined"
    /\ modeInput = "never"
    /\ _selectedDate = 0
    /\ pickers = [i \in PopupIds |-> NoPicker]
    /\ emits = <<>>

\* open(): cancel the opening timer and arm a new one (lines 176-181, 217).
\* `ev`, `inside` name the entry point of the step, `pre` the calls before it.
open(ev, inside, pre) ==
    /\ nextTimer < MaxTimers
    /\ nextTimer' = nextTimer + 1
    /\ _openingTimeout' = nextTimer + 1
    /\ timers' = ClearOpeningTimeout \cup {nextTimer + 1}
    /\ last' = [ev |-> ev, inside |-> inside, id |-> 0, calls |-> Append(pre, "open")]
    /\ UNCHANGED <<_componentRef, trigger, popups, nextPopup, fired, closedTimers>>

\* close() without its clearTimeout: the armed timer survives the close.
close_KeepsTimer(ev, inside, pre) ==
    /\ timers' = timers
    /\ closedTimers' = closedTimers \cup (timers \cap {_openingTimeout})
    /\ IF _componentRef # 0
       THEN \E p \in PopupClose(popups[_componentRef]) :
              /\ popups' = [popups EXCEPT ![_componentRef] = p]
              /\ last' = [ev |-> ev, inside |-> inside, id |-> 0,
                          calls |-> pre \o <<"close", "popup.close">>]
       ELSE /\ popups' = popups
            /\ last' = [ev |-> ev, inside |-> inside, id |-> 0,
                        calls |-> Append(pre, "close")]
    /\ UNCHANGED <<_componentRef, _openingTimeout, trigger, nextTimer, nextPopup, fired>>

\* close() that tears the popup down itself instead of waiting for onClose.
close_Destroys(ev, inside, pre) ==
    /\ timers' = ClearOpeningTimeout
    /\ closedTimers' = closedTimers \cup (timers \cap {_openingTimeout})
    /\ IF _componentRef # 0
       THEN /\ popups' = [popups EXCEPT ![_componentRef].isOpen = FALSE,
                                        ![_componentRef].destroyed = @ + 1]
            /\ _componentRef' = 0
            /\ last' = [ev |-> ev, inside |-> inside, id |-> 0,
                        calls |-> pre \o <<"close", "popup.close", "destroy">>]
       ELSE /\ popups' = popups
            /\ _componentRef' = _componentRef
            /\ last' = [ev |-> ev, inside |-> inside, id |-> 0,
                        calls |-> Append(pre, "close")]
    /\ UNCHANGED <<_openingTimeout, trigger, nextTimer, nextPopup, fired>>

\* close(): cancel the opening timer; start the close transition of the popup
\* if one exists (lines 220-228).
close(ev, inside, pre) ==
    /\ timers' = ClearOpeningTimeout
    /\ closedTimers' = closedTimers \cup (timers \cap {_openingTimeout})
    /\ IF _componentRef # 0
       THEN \E p \in PopupClose(popups[_componentRef]) :
              /\ popups' = [popups EXCEPT ![_componentRef] = p]
              /\ last' = [ev |-> ev, inside |-> inside, id |-> 0,
                          calls |-> pre \o <<"close", "popup.close">>]
       ELSE /\ popups' = popups
            /\ last' = [ev |-> ev, inside |-> inside, id |-> 0,
                        calls |-> Append(pre, "close")]
    /\ UNCHANGED <<_componentRef, _openingTimeout, trigger, nextTimer, nextPopup, fired>>

\* toggle() that forgets the isOpen test of an existing popup.
ToggleOpens_RefOnly == _componentRef = 0

\* toggle() that reads this._popup.isOpen before testing the reference.
ToggleReadsIsOpen_Always == TRUE

\* Whether toggle() evaluates this._popup.isOpen: `||` and `&&` of line 232
\* reach it only when the reference is set.
ToggleReadsIsOpen == _componentRef # 0

\* The condition of toggle() under which it opens (line 232).
ToggleOpens ==
    _componentRef = 0 \/ (ToggleReadsIsOpen /\ ~popups[_componentRef].isOpen)

\* toggle() (lines 230-238).
toggle(ev, inside, pre) ==
    IF ToggleOpens
    THEN open(ev, inside, Append(pre, "toggle"))
    ELSE close(ev, inside, Append(pre, "toggle"))

\* The delayed callback without its existence test: it always generates.
PopupMissing_Always == TRUE

\* The test of the delayed callback that no popup has been generated (line 183).
PopupMissing == _componentRef = 0

\* The subscribe moved out of the `if`: every run of the callback subscribes.
HandlersAdded_Always(created) == 1

\* Number of onClose subscriptions one run of the delayed callback adds: the
\* subscribe of lines 203-210 sits inside the `if` of line 183.
HandlersAdded(created) == IF created THEN 1 ELSE 0

\* The delayed callback of open() for the armed handle t (lines 182-216):
\* generate and configure the popup if there is none, then start its open
\* transition.
OpeningCallback(t) ==
    LET created == PopupMissing
        id == IF created THEN nextPopup + 1 ELSE _componentRef
        generated == [NoPopup EXCEPT !.by = t]
        before == IF created THEN generated ELSE popups[id]
        after == PopupOpen([before EXCEPT !.handlers = @ + HandlersAdded(created)])
    IN  /\ t \in timers
        /\ created => nextPopup < MaxPopups
        /\ timers' = timers \ {t}
        /\ fired' = fired \cup {t}
        /\ _componentRef' = id
        /\ nextPopup' = IF created THEN id ELSE nextPopup
        /\ popups' = [popups EXCEPT ![id] = after]
        /\ last' = [ev |-> "timer", inside |-> FALSE, id |-> t,
                    calls |-> (IF created THEN <<"createComponent">> ELSE <<>>)
                              \o [k \in 1..HandlersAdded(created) |-> "onClose.subscribe"]
                              \o <<"popup.open">>]
        /\ UNCHANGED <<_openingTimeout, trigger, nextTimer, closedTimers>>

\* The subscriber without line 208: the reference keeps pointing at the
\* destroyed component.
onCloseHandler_KeepsRef(st) ==
    IF st.ref # 0
    THEN [ref |-> st.ref, popups |-> [st.popups EXCEPT ![st.ref].destroyed = @ + 1]]
    ELSE st

\* The subscriber without line 206: the reference is unset, the component stays.
onCloseHandler_NoDestroy(st) ==
    IF st.ref # 0 THEN [ref |-> 0, popups |-> st.popups] ELSE st

\* The subscriber of onClose (lines 203-210), on the pair of the reference and
\* the components: destroy the referenced component and unset the reference.
onCloseHandler(st) ==
    IF st.ref # 0
    THEN [ref |-> 0, popups |-> [st.popups EXCEPT ![st.ref].destroyed = @ + 1]]
    ELSE st

\* EventEmitter.emit(): the n subscribers run one after the other.
RECURSIVE Emit(_, _)
Emit(n, st) == IF n = 0 THEN st ELSE Emit(n - 1, onCloseHandler(st))

\* Number of ComponentRef.destroy() calls made so far.
Destroys(ps) ==
    LET RECURSIVE Sum(_)
        Sum(i) == IF i = 0 THEN 0 ELSE ps[i].destroyed + Sum(i - 1)
    IN  Sum(MaxPopups)

\* A close transition of popup i completes and the popup emits onClose.
PopupOnClose(i) ==
    LET emitted == [popups EXCEPT ![i].signals = @ - 1]
        st == Emit(popups[i].handlers, [ref |-> _componentRef, popups |-> emitted])
    IN  /\ Created(i)
        /\ popups[i].signals > 0
        /\ _componentRef' = st.ref
        /\ popups' = st.popups
        /\ last' = [ev |-> "onClose", inside |-> FALSE, id |-> i,
                    calls |-> [k \in 1..(Destroys(st.popups) - Destroys(popups))
                                 |-> "destroy"]]
        /\ UNCHANGED <<_openingTimeout, trigger, timers, nextTimer, nextPopup,
                       fired, closedTimers>>

\* A host listener whose trigger test fails: nothing is called.
Ignore(ev, inside) ==
    /\ last' = [ev |-> ev, inside |-> inside, id |-> 0, calls |-> <<>>]
    /\ UNCHANGED <<_componentRef, _openingTimeout, trigger, timers, nextTimer,
                   popups, nextPopup, fired, closedTimers>>

\* @HostListener("mouseenter") (lines 240-245).
onMouseEnter ==
    IF trigger = "Hover" THEN open("mouseenter", FALSE, <<>>)
    ELSE Ignore("mouseenter", FALSE)

\* mouseleave without the trigger test.
onMouseLeave_Unfiltered == close("mouseleave", FALSE, <<>>)

\* @HostListener("mouseleave") (lines 247-252).
onMouseLeave ==
    IF trigger = "Hover" THEN close("mouseleave", FALSE, <<>>)
    ELSE Ignore("mouseleave", FALSE)

\* @HostListener("click") (lines 254-260).
onClick ==
    IF trigger = "Click" \/ trigger = "OutsideClick"
    THEN toggle("click", FALSE, <<>>)
    ELSE Ignore("click", FALSE)

\* document:click without the test that a popup exists.
onDocumentClick_NoRefTest(inside) ==
    IF trigger = "OutsideClick"
    THEN IF ~inside THEN close("document:click", inside, <<>>)
         ELSE Ignore("document:click", inside)
    ELSE Ignore("document:click", inside)

\* @HostListener("document:click") (lines 262-272); `inside` is the result of
\* this._element.nativeElement.contains(e.target).
onDocumentClick(inside) ==
    IF _componentRef # 0 /\ trigger = "OutsideClick"
    THEN IF ~inside THEN close("document:click", inside, <<>>)
         ELSE Ignore("document:click", inside)
    ELSE Ignore("document:click", inside)

\* @HostListener("focus") (lines 274-279).
onFocus ==
    IF trigger = "Focus" THEN open("focus", FALSE, <<>>)
    ELSE Ignore("focus", FALSE)

\* @HostListener("focusout") (lines 281-286).
onFocusOut ==
    IF trigger = "Focus" THEN close("focusout", FALSE, <<>>)
    ELSE Ignore("focusout", FALSE)

\* The callers of the public IPopup methods.
CallOpen == open("open", FALSE, <<>>)
CallClose == close("close", FALSE, <<>>)
CallToggle == toggle("toggle", FALSE, <<>>)

\* The popup controller on its own, under every trigger mode: the picker
\* directive's fields stay as constructed.
Next ==
    \/ CallOpen /\ UNCHANGED pickerVars
    \/ CallClose /\ UNCHANGED pickerVars
    \/ CallToggle /\ UNCHANGED pickerVars
    \/ \E t \in TimerIds : OpeningCallback(t) /\ UNCHANGED pickerVars
    \/ \E i \in PopupIds : PopupOnClose(i) /\ UNCHANGED pickerVars
    \/ onMouseEnter /\ UNCHANGED pickerVars
    \/ onMouseLeave /\ UNCHANGED pickerVars
    \/ onClick /\ UNCHANGED pickerVars
    \/ \E inside \in BOOLEAN : onDocumentClick(inside) /\ UNCHANGED pickerVars
    \/ onFocus /\ UNCHANGED pickerVars
    \/ onFocusOut /\ UNCHANGED pickerVars

Spec == Init /\ [][Next]_vars

-----------------------------------------------------------------------------
(* SuiDatepickerDirective: the picker adapter over the popup controller.     *)
(* Its constructor fixes the trigger to Focus (lines 89-92).  Its base class *)
(* lives in another file; the controller above stands for it, and the        *)
(* after-open hook runs at the end of every delayed callback.                *)

\* JavaScript truthiness of a value bound to the mode input (line 45); the
\* modes themselves are non-empty strings.
Truthy(m) == m \notin {"undefined", "null", ""}

\* The switch of the mode setter without its default label.
ConfigFor_NoDefault(m) ==
    CASE m = "Year" -> "YearConfig"
      [] m = "Month" -> "MonthConfig"
      [] m = "Date" -> "DateConfig"
      [] m = "Datetime" -> "DatetimeConfig"
      [] m = "Time" -> "TimeConfig"
      [] OTHER -> config

\* The switch of the mode setter (lines 48-65): the class of the new config.
ConfigFor(m) ==
    CASE m = "Year" -> "YearConfig"
      [] m = "Month" -> "MonthConfig"
      [] m = "Datetime" -> "DatetimeConfig"
      [] m = "Time" -> "TimeConfig"
      [] OTHER -> "DateConfig"

\* The mode setter that stores whatever it is given.
ModeStored_Always(m) == m

\* The value of _mode after the setter ran with m (lines 45-47).
ModeStored(m) == IF Truthy(m) THEN m ELSE _mode

\* An assignment to the mode input (lines 44-66).
SetMode(m) ==
    /\ _mode' = ModeStored(m)
    /\ config' = ConfigFor(m)
    /\ modeInput' = m
    /\ emits' = <<>>
    /\ last' = [ev |-> "mode", inside |-> FALSE, id |-> 0, calls |-> <<>>]
    /\ UNCHANGED <<_componentRef, _openingTimeout, trigger, timers, nextTimer,
                   popups, nextPopup, fired, closedTimers, _selectedDate, pickers>>

\* A selectedDate setter that notifies only when the date changes.
selectedDateSetter_OnChange(cur, d) ==
    [value |-> d, emits |-> IF d = cur THEN <<>> ELSE <<d>>]

\* The selectedDate setter (lines 31-34): the stored date and what
\* onDateChange emits; `cur` is the date stored before.
selectedDateSetter(cur, d) == [value |-> d, emits |-> <<d>>]

\* The test of writeValue that a component instance exists (line 120).
PushesDate == _componentRef # 0

\* writeValue(d) (lines 117-123).
writeValue(d) ==
    LET r == selectedDateSetter(_selectedDate, d)
    IN  /\ _selectedDate' = r.value
        /\ emits' = r.emits
        /\ pickers' = IF PushesDate
                      THEN [pickers EXCEPT ![_componentRef].selectedDate = d]
                      ELSE pickers
        /\ last' = [ev |-> "writeValue", inside |-> FALSE, id |-> d, calls |-> <<>>]
        /\ UNCHANGED <<_componentRef, _openingTimeout, trigger, timers, nextTimer,
                       popups, nextPopup, fired, closedTimers,
                       _mode, config, modeInput>>

\* popupOnOpen() on the component instance pk (lines 100-115): push config
\* and selected date, subscribe once more to its onDateChange.
popupOnOpen(pk) ==
    [config |-> config, selectedDate |-> _selectedDate, subs |-> pk.subs + 1]

\* A step of the controller in the picker: onDateChange emits nothing and
\* the directive's fields and the component instances stay.
ControllerOnly ==
    /\ emits' = <<>>
    /\ UNCHANGED <<_mode, config, modeInput, _selectedDate, pickers>>

\* The delayed callback in the picker: the controller's callback, then the
\* after-open hook on the component instance of the referenced popup.
PickerOpeningCallback(t) ==
    /\ OpeningCallback(t)
    /\ pickers' = [pickers EXCEPT ![_componentRef'] = popupOnOpen(@)]
    /\ emits' = <<>>
    /\ UNCHANGED <<_mode, config, modeInput, _selectedDate>>

\* A subscriber of the date signal that does not close the popup.
onDateChangeHandler_NoClose(st, d) ==
    LET r == selectedDateSetter(st.sel, d)
    IN  [sel |-> r.value, emits |-> st.emits \o r.emits, closes |-> st.closes]

\* One subscriber of componentInstance.onDateChange (lines 110-113): set the
\* selected date, then call close().  `st` carries the date stored, the
\* notifications emitted and the close() calls made so far in the step.
onDateChangeHandler(st, d) ==
    LET r == selectedDateSetter(st.sel, d)
    IN  [sel |-> r.value, emits |-> st.emits \o r.emits, closes |-> st.closes + 1]

\* componentInstance.onDateChange.emit(d): the n subscribers run in turn.
RECURSIVE EmitDate(_, _, _)
EmitDate(n, st, d) == IF n = 0 THEN st ELSE EmitDate(n - 1, onDateChangeHandler(st, d), d)

\* The outcomes of k successive SuiPopup.close() calls on popup p.
RECURSIVE PopupCloseTimes(_, _)
PopupCloseTimes(k, p) ==
    IF k = 0 THEN {p}
    ELSE UNION {PopupCloseTimes(k - 1, q) : q \in PopupClose(p)}

\* The calls of k successive close() calls with a popup referenced.
RECURSIVE CloseCalls(_)
CloseCalls(k) == IF k = 0 THEN <<>> ELSE <<"close", "popup.close">> \o CloseCalls(k - 1)

\* k successive close() calls (lines 220-228) in one step, with a popup
\* referenced; one call is close() itself.
closeTimes(k, ev, id) ==
    IF k = 0
    THEN /\ last' = [ev |-> ev, inside |-> FALSE, id |-> id, calls |-> <<>>]
         /\ UNCHANGED <<_componentRef, _openingTimeout, trigger, timers, nextTimer,
                        popups, nextPopup, fired, closedTimers>>
    ELSE /\ timers' = ClearOpeningTimeout
         /\ closedTimers' = closedTimers \cup (timers \cap {_openingTimeout})
         /\ \E p \in PopupCloseTimes(k, popups[_componentRef]) :
              popups' = [popups EXCEPT ![_componentRef] = p]
         /\ last' = [ev |-> ev, inside |-> FALSE, id |-> id, calls |-> CloseCalls(k)]
         /\ UNCHANGED <<_componentRef, _openingTimeout, trigger, nextTimer,
                        nextPopup, fired>>

\* The component instance of the referenced popup emits its date signal
\* with date d: its subscribers run.
DateChosen(d) ==
    /\ _componentRef # 0
    /\ LET st == EmitDate(pickers[_componentRef].subs,
                          [sel |-> _selectedDate, emits |-> <<>>, closes |-> 0], d)
       IN  /\ _selectedDate' = st.sel
           /\ emits' = st.emits
           /\ closeTimes(st.closes, "dateChosen", d)
    /\ UNCHANGED <<_mode, config, modeInput, pickers>>

\* @HostListener("keydown") (lines 125-130).
onKeyDown(key) ==
    IF key = "Escape" THEN close("keydown", FALSE, <<>>)
    ELSE Ignore("keydown", FALSE)

\* The directive as constructed: the trigger is Focus (lines 89-92).
InitPicker == Init /\ trigger = "Focus"

\* The picker and its popup, with the mode input left unbound.
NextPicker ==
    \/ onFocus /\ ControllerOnly
    \/ onFocusOut /\ ControllerOnly
    \/ \E key \in {"Escape", "Enter"} : onKeyDown(key) /\ ControllerOnly
    \/ \E t \in TimerIds : PickerOpeningCallback(t)
    \/ \E i \in PopupIds : PopupOnClose(i) /\ ControllerOnly
    \/ \E d \in Dates \ {0} : DateChosen(d)
    \/ \E d \in Dates : writeValue(d)

SpecPicker == InitPicker /\ [][NextPicker]_vars

\* The inputs of the directive while no popup is requested: assignments to
\* the mode input and values written by the value accessor.
NextMode ==
    \/ \E m \in ModeInputs : SetMode(m)
    \/ \E d \in Dates : writeValue(d)

SpecMode == InitPicker /\ [][NextMode]_vars
-----------------------------------------------------------------------------
(* Properties                                                               *)

\* The calls of the step just taken, as a set.
Called(l) == {l.calls[k] : k \in 1..Len(l.calls)}

\* The method a listener or caller invoked first in the step, "" for none.
Intent(l) == IF l.calls = <<>> THEN "" ELSE Head(l.calls)

\* The variables of the controller and of its popups (everything but the
\* record of the last step).
state == <<_componentRef, _openingTimeout, trigger, timers, nextTimer,
           popups, nextPopup>>

\* C1: a timer that was armed when close() ran never runs its delayed
\* callback afterwards, and no popup is ever generated by it.
C1_ClosedTimerNeverFires ==
    /\ fired \cap closedTimers = {}
    /\ \A i \in PopupIds : Created(i) => popups[i].by \notin closedTimers

\* open() then close() before the timer fired: nothing was generated.
C1_Witness ==
    /\ last.ev = "close"
    /\ closedTimers = {1}
    /\ nextPopup = 0
    /\ timers = {}

\* C2: at most one popup that has been generated and not destroyed exists,
\* in every reachable state.
C2_AtMostOneLivePopup == Cardinality({i \in PopupIds : Live(i)}) <= 1

\* A second popup lives after the first one was destroyed.
C2_Witness ==
    /\ nextPopup = 2
    /\ popups[1].destroyed = 1
    /\ Live(2)
    /\ _componentRef = 2

\* C3: when onClose fires for the referenced popup, that popup is destroyed
\* and the reference unset; a delayed callback that finds no reference then
\* generates a popup that is none of the popups generated before.
C3_FreshPopupAfterClose ==
    [][ /\ (last'.ev = "onClose" /\ _componentRef # 0 /\ last'.id = _componentRef)
            => /\ _componentRef' = 0
               /\ popups'[_componentRef].destroyed = popups[_componentRef].destroyed + 1
        /\ (last'.ev = "timer" /\ _componentRef = 0)
            => /\ _componentRef' # 0
               /\ ~Created(_componentRef')
               /\ popups'[_componentRef'].destroyed = 0
               /\ nextPopup' = _componentRef'
      ]_vars

\* A popup generated by a callback after an earlier popup was closed and
\* destroyed.
C3_Witness ==
    /\ last.ev = "timer"
    /\ "createComponent" \in Called(last)
    /\ _componentRef = 2
    /\ popups[1].destroyed = 1

\* C4: a delayed callback that runs while a popup is referenced generates
\* nothing and subscribes nothing; it only calls open() of that popup.
C4_CallbackReopensExisting ==
    [][ (last'.ev = "timer" /\ _componentRef # 0)
        => /\ _componentRef' = _componentRef
           /\ nextPopup' = nextPopup
           /\ last'.calls = <<"popup.open">>
           /\ popups' = [popups EXCEPT ![_componentRef].isOpen = TRUE]
      ]_vars

\* The callback ran on a popup that was in its close transition.
C4_Witness ==
    /\ last.ev = "timer"
    /\ last.calls = <<"popup.open">>
    /\ _componentRef # 0
    /\ popups[_componentRef].signals > 0

\* C5: close() while no popup is referenced only cancels the opening timer:
\* nothing is generated, no close transition is started, the reference stays
\* unset.
C5_CloseWithoutPopup ==
    [][ ("close" \in Called(last') /\ _componentRef = 0)
        => /\ _componentRef' = 0
           /\ popups' = popups
           /\ nextPopup' = nextPopup
           /\ "popup.close" \notin Called(last')
           /\ timers' = timers \ {_openingTimeout}
           /\ UNCHANGED <<_openingTimeout, nextTimer, trigger>>
      ]_vars

\* close() ran with no popup and cancelled the armed timer.
C5_Witness ==
    /\ last.calls = <<"close">>
    /\ _componentRef = 0
    /\ timers = {}
    /\ _openingTimeout \in closedTimers

\* C6: close() while a popup is referenced calls close() of that popup and
\* keeps the reference; a popup is destroyed and the reference unset only in
\* a step in which onClose fires, and after such a step no popup is referenced.
C6_CloseThenDestroyOnSignal ==
    [][ /\ ("close" \in Called(last') /\ _componentRef # 0)
            => /\ "popup.close" \in Called(last')
               /\ _componentRef' = _componentRef
               /\ popups'[_componentRef] \in PopupClose(popups[_componentRef])
               /\ popups'[_componentRef].destroyed = popups[_componentRef].destroyed
        /\ (\E i \in PopupIds : popups'[i].destroyed # popups[i].destroyed)
            => last'.ev = "onClose"
        /\ (_componentRef # 0 /\ _componentRef' # _componentRef)
            => last'.ev = "onClose"
        /\ last'.ev = "onClose"
            => /\ _componentRef' = 0
               /\ \A i \in PopupIds : ~Live(i)'
      ]_vars

\* onClose fired after close() and destroyed the popup.
C6_Witness ==
    /\ last.ev = "onClose"
    /\ last.calls = <<"destroy">>
    /\ _componentRef = 0
    /\ popups[1].destroyed = 1

\* What open() does to the controller: the old timer is cancelled, a new one
\* armed, nothing else changes.
C7_OpenEffect ==
    /\ nextTimer' = nextTimer + 1
    /\ _openingTimeout' = nextTimer'
    /\ timers' = (timers \ {_openingTimeout}) \cup {_openingTimeout'}
    /\ UNCHANGED <<_componentRef, popups, nextPopup, trigger, fired, closedTimers>>
    /\ SubSeq(last'.calls, 2, Len(last'.calls)) = <<"open">>

\* What close() does to the controller that references an open popup.
C7_CloseEffect ==
    /\ timers' = timers \ {_openingTimeout}
    /\ closedTimers' = closedTimers \cup (timers \cap {_openingTimeout})
    /\ popups' = [popups EXCEPT ![_componentRef].isOpen = FALSE,
                                ![_componentRef].signals = @ + 1]
    /\ UNCHANGED <<_componentRef, _openingTimeout, nextTimer, nextPopup, trigger, fired>>
    /\ SubSeq(last'.calls, 2, Len(last'.calls)) = <<"close", "popup.close">>

\* C7: toggle() does what open() does when no popup is referenced or the
\* referenced popup reports isOpen = false, and what close() does when the
\* referenced popup reports isOpen = true.
C7_ToggleDelegates ==
    [][ Intent(last') = "toggle"
        => IF _componentRef = 0 \/ ~popups[_componentRef].isOpen
           THEN C7_OpenEffect
           ELSE C7_CloseEffect
      ]_vars

\* toggle() opened although a popup exists, because it reports not open.
C7_Witness ==
    /\ last.calls = <<"toggle", "open">>
    /\ _componentRef # 0
    /\ ~popups[_componentRef].isOpen
    /\ _openingTimeout \in timers

\* The intent of the trigger table for a host event.
C8_Table(mode, ev, inside, exists) ==
    CASE ev = "mouseenter" -> IF mode = "Hover" THEN "open" ELSE ""
      [] ev = "mouseleave" -> IF mode = "Hover" THEN "close" ELSE ""
      [] ev = "click" -> IF mode \in {"Click", "OutsideClick"} THEN "toggle" ELSE ""
      [] ev = "document:click" ->
            IF mode = "OutsideClick" /\ exists /\ ~inside THEN "close" ELSE ""
      [] ev = "focus" -> IF mode = "Focus" THEN "open" ELSE ""
      [] ev = "focusout" -> IF mode = "Focus" THEN "close" ELSE ""

HostEvents ==
    {"mouseenter", "mouseleave", "click", "document:click", "focus", "focusout"}

\* C8: for every trigger mode and host event the listener invokes exactly the
\* method of the trigger table, and an event that does not match the mode
\* invokes nothing and leaves the controller as it was.
C8_TriggerTable ==
    [][ last'.ev \in HostEvents
        => LET want == C8_Table(trigger, last'.ev, last'.inside, _componentRef # 0)
           IN  /\ Intent(last') = want
               /\ want = "" => (last'.calls = <<>> /\ UNCHANGED state)
      ]_vars

\* A mouseenter under the Focus trigger found an armed timer and a popup and
\* touched neither.
C8_Witness ==
    /\ trigger = "Focus"
    /\ last.ev = "mouseenter"
    /\ last.calls = <<>>
    /\ _componentRef # 0
    /\ timers # {}

\* C9: a document click calls close() exactly when the trigger is
\* OutsideClick, the target is outside the anchor and a popup is referenced;
\* otherwise nothing is called and the opening timer stays as it was.
C9_DocumentClick ==
    [][ last'.ev = "document:click"
        => /\ "close" \in Called(last')
               <=> (trigger = "OutsideClick" /\ ~last'.inside /\ _componentRef # 0)
           /\ "close" \notin Called(last')
               => (timers' = timers /\ closedTimers' = closedTimers /\ UNCHANGED state)
      ]_vars

\* An outside click under OutsideClick while only the timer was pending: the
\* timer is still armed.
C9_Witness ==
    /\ trigger = "OutsideClick"
    /\ last.ev = "document:click"
    /\ ~last.inside
    /\ last.calls = <<>>
    /\ _componentRef = 0
    /\ _openingTimeout \in timers

\* C10: every generated popup has exactly one onClose subscriber, whatever
\* the number of callbacks that ran on it, and one onClose signal makes at
\* most one destroy() call.
C10_OneHandlerPerPopup ==
    /\ \A i \in PopupIds : Created(i) => popups[i].handlers = 1
    /\ last.ev = "onClose" => Len(last.calls) <= 1

\* Three delayed callbacks ran on the same popup.
C10_Witness ==
    /\ nextPopup = 1
    /\ Cardinality(fired) >= 3
    /\ Live(1)
    /\ popups[1].handlers = 1
\* C11: an onClose signal emitted by one popup destroys no other popup.
C11_SignalDestroysOnlyItsPopup ==
    [][ last'.ev = "onClose"
        => \A j \in PopupIds :
             j # last'.id => popups'[j].destroyed = popups[j].destroyed
      ]_vars

\* C17: at most one opening timer is armed, and it is the one the last
\* open() armed, so the opens made before it fires run one callback.
C17_OneOpeningTimer ==
    /\ Cardinality(timers) <= 1
    /\ timers \subseteq {_openingTimeout}
    /\ _openingTimeout = nextTimer

\* Three open() calls before any callback ran: only the last timer is armed.
C17_Witness ==
    /\ nextTimer = 3
    /\ fired = {}
    /\ timers = {3}
    /\ Intent(last) = "open"

\* C18: every evaluation of the _popup accessor happens with the reference
\* set to a popup that has not been destroyed: popup.close() in close(),
\* the isOpen read in toggle(), popup.open() at the end of the callback.
C18_PopupAccessedOnlyWhenSet ==
    [][ /\ "popup.close" \in Called(last')
            => (_componentRef # 0 /\ Live(_componentRef))
        /\ ("toggle" \in Called(last') /\ ToggleReadsIsOpen)
            => (_componentRef # 0 /\ Live(_componentRef))
        /\ "popup.open" \in Called(last')
            => (_componentRef' # 0 /\ popups'[_componentRef'].destroyed = 0)
      ]_vars

\* toggle() found a popup, read its isOpen and called its close().
C18_Witness ==
    /\ last.calls = <<"toggle", "close", "popup.close">>
    /\ _componentRef # 0
    /\ Live(_componentRef)
    /\ popups[_componentRef].signals > 0

\* C19: a referenced popup that reports open (a callback ran on it and no
\* close() since) stays referenced and undestroyed by every step that is not
\* a close().
C19_OpenPopupSurvives ==
    [][ (_componentRef # 0 /\ popups[_componentRef].isOpen
         /\ "close" \notin Called(last'))
        => (_componentRef' = _componentRef /\ Live(_componentRef)')
      ]_vars
\* The config class the mode table names for a value of the mode input.
C12_Variant(m) ==
    CASE m = "Year" -> "YearConfig"
      [] m = "Month" -> "MonthConfig"
      [] m = "Date" -> "DateConfig"
      [] m = "Datetime" -> "DatetimeConfig"
      [] m = "Time" -> "TimeConfig"
      [] OTHER -> "DateConfig"

\* C12: once the mode input was assigned, config is the variant named after
\* the assigned mode, and the Date variant for an absent or unrecognized value.
C12_ModeSelectsConfig ==
    modeInput # "never" => config = C12_Variant(modeInput)

\* The mode was set to Time and config is the Time variant.
C12_Witness ==
    /\ last.ev = "mode"
    /\ modeInput = "Time"
    /\ config = "TimeConfig"
    /\ _mode = "Time"

\* C13: in every state, the one right after construction included, config
\* is one of the five variants: the one of the last assigned mode, the Date
\* variant when none was assigned or the value is absent or unrecognized.
C13_AlwaysOneVariant ==
    /\ config \in {"YearConfig", "MonthConfig", "DateConfig", "DatetimeConfig",
                   "TimeConfig"}
    /\ config = C12_Variant(modeInput)

\* C14 as stated: an assignment of a value that is no mode leaves the mode
\* getter at the previous mode and makes config the Date variant.
C14_InvalidKeepsMode ==
    [][ (last'.ev = "mode" /\ modeInput' \notin DatepickerMode)
        => (_mode' = _mode /\ config' = "DateConfig")
      ]_vars

\* C14 amended: an assignment of undefined, null or another falsy value
\* leaves the mode getter at the previous mode; an assignment of a truthy
\* value that is no mode makes the getter return that value; in both cases
\* config becomes the Date variant.
C14_FalsyKeepsMode ==
    [][ (last'.ev = "mode" /\ modeInput' \notin DatepickerMode)
        => /\ config' = "DateConfig"
           /\ modeInput' \in {"undefined", "null", ""} => _mode' = _mode
           /\ modeInput' \notin {"undefined", "null", ""} => _mode' = modeInput'
      ]_vars

\* mode := Time, then mode := undefined: the getter reads Time, config is the
\* Date variant.
C14_Witness ==
    /\ last.ev = "mode"
    /\ modeInput = "undefined"
    /\ _mode = "Time"
    /\ config = "DateConfig"

\* C15: writeValue(d) stores d, emits onDateChange once with d, pushes d into
\* the component instance exactly when a popup is referenced, and leaves the
\* controller and its popups alone.
C15_WriteValue ==
    [][ last'.ev = "writeValue"
        => LET d == last'.id
           IN  /\ _selectedDate' = d
               /\ emits' = <<d>>
               /\ pickers' = IF _componentRef # 0
                             THEN [pickers EXCEPT ![_componentRef].selectedDate = d]
                             ELSE pickers
               /\ last'.calls = <<>>
               /\ UNCHANGED <<_componentRef, _openingTimeout, timers, nextTimer,
                              popups, nextPopup, fired, closedTimers>>
      ]_vars

\* writeValue wrote the date already selected while a popup was referenced:
\* one notification, the date pushed into the instance.
C15_Witness ==
    /\ last.ev = "writeValue"
    /\ last.id = 1
    /\ emits = <<1>>
    /\ _selectedDate = 1
    /\ _componentRef # 0
    /\ pickers[_componentRef].selectedDate = 1
    /\ popups[_componentRef].isOpen

\* C16: when the component instance signals a chosen date d, in that step
\* the directive stores d, emits onDateChange with d and calls close(), so
\* the popup is in its close transition and still referenced; the onClose
\* of the referenced popup then destroys it.
C16_DateChosenCloses ==
    [][ /\ last'.ev = "dateChosen"
            => /\ _selectedDate' = last'.id
               /\ emits' # <<>>
               /\ \A k \in 1..Len(emits') : emits'[k] = last'.id
               /\ "close" \in Called(last')
               /\ "popup.close" \in Called(last')
               /\ _componentRef' = _componentRef
               /\ ~popups'[_componentRef].isOpen
               /\ popups'[_componentRef].signals >= 1
               /\ popups'[_componentRef].destroyed = 0
        /\ (last'.ev = "onClose" /\ _componentRef # 0 /\ last'.id = _componentRef)
            => (_componentRef' = 0 /\ popups'[_componentRef].destroyed = 1)
      ]_vars

\* A date was chosen in an open popup: date stored and notified, close
\* transition in flight.
C16_Witness ==
    /\ last.ev = "dateChosen"
    /\ last.id = 1
    /\ _selectedDate = 1
    /\ emits = <<1>>
    /\ _componentRef # 0
    /\ ~popups[_componentRef].isOpen
    /\ popups[_componentRef].signals = 1

\* C20: one date signal makes one update of the selected date, one
\* onDateChange notification and one close() call, however often the
\* after-open hook ran on the popup.
C20_OneUpdatePerDateSignal ==
    last.ev = "dateChosen"
        => (Len(emits) = 1 /\ last.calls = <<"close", "popup.close">>)
====
